---- MODULE Spec2Model ----
(***************************************************************************)
(* Model of the two experiment scripts of mhcflurry:                       *)
(*   experiments/nips2015-model-selection.py      (grid search, k-fold CV) *)
(*   script/mhcflurry-dataset-size-sensitivity.py (subsampled training)    *)
(*                                                                         *)
(* Network weights are modelled as the history of what produced them: a    *)
(* sequence that starts with the model's construction and gets one entry   *)
(* per call of fit.  Two weight values are equal exactly when they were    *)
(* produced by the same training history, so "training in one fold does    *)
(* not leak into another" is a statement about these sequences.            *)
(***************************************************************************)
EXTENDS Integers, Sequences, FiniteSets, TLC

----------------------------------------------------------------------------
\* Bounds of the model

MaxSamples == 3          \* samples per allele (leave-out CV)
MaxFoldSamples == 5      \* samples of the allele in a stand-alone k-fold call
MainMaxSamples == 3      \* samples per allele (whole run)
MinTotal == 2            \* least number of samples of the allele (subsampling)
MaxTotal == 6            \* most samples of the allele (subsampling)
MaxMinTraining == 3      \* largest min_training_samples
MaxMaxTraining == 4      \* largest max_training_samples
MaxSizes == 3            \* largest n_subsample_sizes
MaxRepeats == 2          \* largest n_repeats_per_size

----------------------------------------------------------------------------
\* Generic helpers

Range(s) == {s[k] : k \in 1..Len(s)}

Min(a, b) == IF a <= b THEN a ELSE b

RECURSIVE Concat(_)
Concat(ss) == IF ss = <<>> THEN <<>> ELSE Head(ss) \o Concat(Tail(ss))

SeqsUpTo(S, shortest, longest) == UNION {[1..n -> S] : n \in shortest..longest}

----------------------------------------------------------------------------
\* Allele names are strings, kept as sequences of characters so that
\* str.isdigit, len and the ordering used by sorted() can be computed.

Digits == {"0", "1", "2", "3", "4", "5", "6", "7", "8", "9"}

\* code point order of the characters that occur in allele names
Ord(c) ==
    CASE c = "*" -> 42
      [] c = "-" -> 45
      [] c \in Digits -> 48 + (CHOOSE d \in 0..9 :
                                 c = <<"0","1","2","3","4","5","6","7","8","9">>[d + 1])
      [] c = ":" -> 58
      [] c = "A" -> 65
      [] c = "B" -> 66
      [] c = "C" -> 67
      [] OTHER -> 90

RECURSIVE StrLess(_, _)
StrLess(a, b) ==
    IF a = <<>> THEN b /= <<>>
    ELSE IF b = <<>> THEN FALSE
    ELSE IF Ord(Head(a)) /= Ord(Head(b)) THEN Ord(Head(a)) < Ord(Head(b))
    ELSE StrLess(Tail(a), Tail(b))

IsDigit(name) == name /= <<>> /\ \A k \in 1..Len(name) : name[k] \in Digits

K_A0201     == <<"A", "0", "2", "0", "1">>
K_A0201Star == <<"A", "*", "0", "2", "0", "1">>
K_B0702     == <<"B", "0", "7", "0", "2">>
K_Digits    == <<"1", "2", "3", "4", "5">>
K_Short     == <<"A", "0", "2">>

AlleleKeys == {K_A0201, K_A0201Star, K_B0702, K_Digits, K_Short}

NormalizeAlleleName(name) ==
    SelectSeq(name, LAMBDA c : c \notin {"*", ":", "-"})

\* sorted(allele_datasets.items(), key=lambda pair: pair[0])
SortedKeys(datasets) ==
    LET keys == DOMAIN datasets
        asSeq == CHOOSE s \in [1..Cardinality(keys) -> keys] : Range(s) = keys
    IN SortSeq(asSeq, StrLess)

\* allele_datasets.items(): one fixed iteration order of the dict; the two
\* comprehensions over it see the same order
DictItems(datasets) == SortedKeys(datasets)

----------------------------------------------------------------------------
\* Data

\* ic50 = 500 is the largest value that counts as a binder (ic50 <= 500)
Ic50Values == {500, 501}

\* dataset.X: one row per measurement of the allele, index encoded
Rows(key, n) == [j \in 1..n |-> [allele |-> key, row |-> j, encoding |-> "index"]]

\* load_data(...): allele name -> dataset with the fields X and ic50.
\* LoadedData holds of the datasets with the allele names of one of keySets
\* and at most maxSamples measurements per allele.
LoadedData(datasets, keySets, maxSamples) ==
    \E K \in keySets : \E v \in [K -> SeqsUpTo(Ic50Values, 1, maxSamples)] :
        datasets = [k \in K |-> [cls |-> "AlleleData",
                                 X |-> Rows(k, Len(v[k])),
                                 ic50 |-> v[k]]]

\* the allele names of the datasets a single call of evaluate_model_config
\* is started with: none, one or two of AlleleKeys
CVKeySets == {S \in SUBSET AlleleKeys : Cardinality(S) <= 2}

\* the allele names of the datasets a whole run is started with
MainKeySets == {{}, {K_A0201}, {K_Digits, K_B0702}}

indices_to_hotshot_encoding(X) ==
    [j \in 1..Len(X) |-> [X[j] EXCEPT !.encoding = "hotshot"]]

\* Y = 1.0 - np.minimum(1.0, np.log(ic50) / np.log(max_ic50)), kept symbolic:
\* one target per measurement, determined by the measurement and max_ic50
TargetsOf(ic50, max_ic50) == [j \in 1..Len(ic50) |-> <<"y", ic50[j], max_ic50>>]

\* attribute access obj.ic50: defined on datasets, AttributeError on a str
HasIc50(obj) == obj.cls = "AlleleData"

StrObj(key) == [cls |-> "str", value |-> key]

----------------------------------------------------------------------------
\* The hyperparameter grid

HIDDEN1_LAYER_SIZES == <<64, 512>>
INITILIZATION_METHODS == <<"glorot_uniform", "glorot_normal">>
ACTIVATIONS == <<"relu", "tanh">>
MAX_IC50_VALUES == <<5000, 20000>>
LOSSES == <<"mse">>
PRETRAIN_EPOCHS == <<0, 10>>
DefaultEmbeddingSizes == <<0, 64>>

ConfigFields ==
    <<"embedding_size", "hidden_layer_size", "activation", "loss", "init",
      "n_pretrain_epochs", "n_epochs", "dropout_probability", "max_ic50">>

\* The loop nest of lines 129-148 appends one configuration per iteration;
\* the innermost loop runs fastest.  IterationOf gives, for the q-th append
\* (from 0), the position of each loop in its list.  Dropout probabilities are
\* percentages (0.25 is 25).
LoopSizes(embedding_sizes) ==
    [activation |-> Len(ACTIVATIONS),
     loss |-> Len(LOSSES),
     init |-> Len(INITILIZATION_METHODS),
     n_pretrain_epochs |-> Len(PRETRAIN_EPOCHS),
     hidden_layer_size |-> Len(HIDDEN1_LAYER_SIZES),
     embedding_size |-> Len(embedding_sizes),
     dropout |-> 2,
     max_ic50 |-> Len(MAX_IC50_VALUES)]

IterationOf(q, n) ==
    LET s8 == 1
        s7 == s8 * n.max_ic50
        s6 == s7 * n.dropout
        s5 == s6 * n.embedding_size
        s4 == s5 * n.hidden_layer_size
        s3 == s4 * n.n_pretrain_epochs
        s2 == s3 * n.init
        s1 == s2 * n.loss
    IN [activation |-> ((q \div s1) % n.activation) + 1,
        loss |-> ((q \div s2) % n.loss) + 1,
        init |-> ((q \div s3) % n.init) + 1,
        n_pretrain_epochs |-> ((q \div s4) % n.n_pretrain_epochs) + 1,
        hidden_layer_size |-> ((q \div s5) % n.hidden_layer_size) + 1,
        embedding_size |-> ((q \div s6) % n.embedding_size) + 1,
        dropout |-> ((q \div s7) % n.dropout) + 1,
        max_ic50 |-> ((q \div s8) % n.max_ic50) + 1]

NumberOfIterations(n) ==
    n.activation * n.loss * n.init * n.n_pretrain_epochs * n.hidden_layer_size
        * n.embedding_size * n.dropout * n.max_ic50

generate_all_model_configs(embedding_sizes, n_training_epochs, max_dropout) ==
    LET dropouts == <<0, max_dropout>>
        n == LoopSizes(embedding_sizes)
    IN [k \in 1..NumberOfIterations(n) |->
          LET at == IterationOf(k - 1, n)
          IN [embedding_size |-> embedding_sizes[at.embedding_size],
              hidden_layer_size |-> HIDDEN1_LAYER_SIZES[at.hidden_layer_size],
              activation |-> ACTIVATIONS[at.activation],
              init |-> INITILIZATION_METHODS[at.init],
              loss |-> LOSSES[at.loss],
              dropout_probability |-> dropouts[at.dropout],
              n_pretrain_epochs |-> PRETRAIN_EPOCHS[at.n_pretrain_epochs],
              n_epochs |-> n_training_epochs,
              max_ic50 |-> MAX_IC50_VALUES[at.max_ic50]]]

----------------------------------------------------------------------------
\* sklearn.cross_validation.KFold(n, n_folds, shuffle=True, random_state=0)

\* The seeded shuffle is one fixed permutation of the indices for each n.
\* Every arrangement of measurements is enumerated in the initial states, so
\* every assignment of measurements to folds occurs.
ShuffledIndices(n) == [j \in 1..n |-> n + 1 - j]

FoldSize(n, k, f) == (n \div k) + (IF f <= n % k THEN 1 ELSE 0)

RECURSIVE FoldStart(_, _, _)
FoldStart(n, k, f) == IF f = 1 THEN 0 ELSE FoldStart(n, k, f - 1) + FoldSize(n, k, f - 1)

SortedSeqOf(S) ==
    LET asSeq == CHOOSE s \in [1..Cardinality(S) -> S] : Range(s) = S
    IN SortSeq(asSeq, LAMBDA x, y : x < y)

KFoldValid(n, k) == k > 1 /\ k <= n

KFold(n, k) ==
    [f \in 1..k |->
        LET idxs == ShuffledIndices(n)
            test == {idxs[j] : j \in (FoldStart(n, k, f) + 1)..(FoldStart(n, k, f) + FoldSize(n, k, f))}
        IN [train |-> SortedSeqOf((1..n) \ test), test |-> SortedSeqOf(test)]]

Take(arr, idx) == [j \in 1..Len(idx) |-> arr[idx[j]]]

\* label_test = ic50_test <= 500
Labels(ic50) == [j \in 1..Len(ic50) |-> ic50[j] <= 500]

\* label_test.all() and label_test.any()
LabelsAll(labels) == \A j \in 1..Len(labels) : labels[j]
LabelsAny(labels) == \E j \in 1..Len(labels) : labels[j]

----------------------------------------------------------------------------
\* The model object: fit trains from the weights in force and leaves the
\* trained weights in the model

Fit(w, X, Y, nb_epoch) == Append(w, [X |-> X, Y |-> Y, nb_epoch |-> nb_epoch])

\* a metric computed from the predictions of the model on a test set
Score(metric, w, X_test) == [metric |-> metric, w |-> w, X_test |-> X_test]

Stat(name, values) == [stat |-> name, of |-> values]

----------------------------------------------------------------------------
\* State

VARIABLES
    pc,                 \* position of the script
    err,                \* the exception that ended the run, "none" if none
    args,               \* parsed command line (model selection)
    allele_datasets,    \* global allele_datasets
    i,                  \* index of the current configuration, from 0
    config,             \* global config (the loop variable of the main loop)
    results_file,       \* content of args.results_filename: the blocks written
    all_dataframes,     \* list all_dataframes
    weights,            \* weights held by the model object
    lo,                 \* arguments of leave_out_allele_cross_validation
    lo_initial_weights, \* its local initial_weights
    allele_iter,        \* keys its loop has still to visit
    result_dict,        \* its local result_dict, one list per column
    result_df,          \* the DataFrame it returned
    kf,                 \* arguments of kfold_cross_validation_for_single_allele
    kf_initial_weights, \* its local initial_weights
    kf_folds,           \* the (train_idx, test_idx) pairs of KFold
    cv_iter,            \* its loop variable
    fold_aucs,          \* its local fold_aucs
    fold_accuracies,    \* its local fold_accuracies
    fit_log,            \* history: one entry per call of model.fit
    sub,                \* state of subsample_performance
    configurations      \* local configurations of generate_all_model_configs

nipsVars ==
    <<pc, err, args, allele_datasets, i, config, results_file,
      all_dataframes, weights, lo, lo_initial_weights, allele_iter,
      result_dict, result_df, kf, kf_initial_weights, kf_folds, cv_iter,
      fold_aucs, fold_accuracies, fit_log, configurations>>

vars == <<nipsVars, sub>>

mainVars == <<args, i, results_file, all_dataframes>>
loVars == <<lo, lo_initial_weights, allele_iter, result_dict, result_df>>
kfVars == <<kf, kf_initial_weights, kf_folds, cv_iter, fold_aucs, fold_accuracies>>

None == [cls |-> "None"]

ResultColumns ==
    <<"allele_name", "dataset_size",
      "auc_mean", "auc_median", "auc_std", "auc_min", "auc_max",
      "accuracy_mean", "accuracy_median", "accuracy_std", "accuracy_min",
      "accuracy_max">>

EmptyResultDict == [c \in Range(ResultColumns) |-> <<>>]

----------------------------------------------------------------------------
\* kfold_cross_validation_for_single_allele

\* int(math.ceil(0.25 * 10 ** 6 / ((cv_folds - 1) * n_samples / cv_folds)))
AutoEpochs(n_samples, folds) ==
    LET num == 250000 * folds
        den == (folds - 1) * n_samples
    IN (num + den - 1) \div den

\* lines 165-182: entry, up to the construction of the KFold iterator
KFoldEnter ==
    /\ pc = "kf_entry"
    /\ LET n_samples == Len(kf.Y) IN
       /\ kf_initial_weights' = weights
       /\ fold_aucs' = <<>>
       /\ fold_accuracies' = <<>>
       /\ kf' = [kf EXCEPT !.n_training_epochs =
                    IF kf.n_training_epochs = 0
                    THEN AutoEpochs(n_samples, kf.cv_folds)
                    ELSE kf.n_training_epochs]
       /\ cv_iter' = 0
       /\ IF KFoldValid(n_samples, kf.cv_folds)
          THEN /\ kf_folds' = KFold(n_samples, kf.cv_folds)
               /\ pc' = "kf_loop"
               /\ err' = err
          ELSE /\ kf_folds' = <<>>
               /\ pc' = "crashed"
               /\ err' = "ValueError"
    /\ UNCHANGED <<mainVars, loVars, allele_datasets, config, weights, fit_log, sub,
                   configurations>>

FoldLabels(f) == Labels(Take(kf.ic50, kf_folds[f].test))

\* the test of line 187 without its second half
DegenerateOnlyAll(labels) == LabelsAll(labels)

\* label_test.all() or not label_test.any()
Degenerate(labels) == LabelsAll(labels) \/ ~LabelsAny(labels)

\* lines 183-191: a fold whose test labels are all the same is skipped
KFoldSkip ==
    /\ pc = "kf_loop"
    /\ cv_iter < Len(kf_folds)
    /\ Degenerate(FoldLabels(cv_iter + 1))
    /\ cv_iter' = cv_iter + 1
    /\ UNCHANGED <<pc, err, mainVars, loVars, allele_datasets, config, weights,
                   kf, kf_initial_weights, kf_folds, fold_aucs, fold_accuracies,
                   fit_log, sub,
                   configurations>>

\* the fold loop without the call of set_weights
KFoldRestoreOmitted(w, saved) == w

\* model.set_weights(initial_weights) of line 192
KFoldRestore(w, saved) == saved

\* lines 183-211: restore the weights, fit, predict, record the two metrics
KFoldFit ==
    /\ pc = "kf_loop"
    /\ cv_iter < Len(kf_folds)
    /\ ~Degenerate(FoldLabels(cv_iter + 1))
    /\ LET fold == kf_folds[cv_iter + 1]
           X_train == Take(kf.X, fold.train)
           Y_train == Take(kf.Y, fold.train)
           X_test == Take(kf.X, fold.test)
           start == KFoldRestore(weights, kf_initial_weights)
           trained == Fit(start, X_train, Y_train, kf.n_training_epochs)
       IN /\ weights' = trained
          /\ fold_aucs' = Append(fold_aucs, Score("auc", trained, X_test))
          /\ fold_accuracies' = Append(fold_accuracies, Score("accuracy", trained, X_test))
          /\ fit_log' = Append(fit_log,
                [kind |-> "cv", allele |-> kf.allele_name, cv_iter |-> cv_iter,
                 start |-> start, X |-> X_train, Y |-> Y_train, X_test |-> X_test])
    /\ cv_iter' = cv_iter + 1
    /\ UNCHANGED <<pc, err, mainVars, loVars, allele_datasets, config,
                   kf, kf_initial_weights, kf_folds, sub,
                   configurations>>

\* line 212
KFoldReturn ==
    /\ pc = "kf_loop"
    /\ cv_iter = Len(kf_folds)
    /\ pc' = "kf_return"
    /\ UNCHANGED <<err, mainVars, loVars, kfVars, allele_datasets, config,
                   weights, fit_log, sub,
                   configurations>>

----------------------------------------------------------------------------
\* leave_out_allele_cross_validation

\* lines 238-252
LeaveOutEnter ==
    /\ pc = "lo_entry"
    /\ result_dict' = EmptyResultDict
    /\ lo_initial_weights' = weights
    /\ allele_iter' = SortedKeys(allele_datasets)
    /\ pc' = "lo_loop"
    /\ UNCHANGED <<err, mainVars, kfVars, lo, result_df, allele_datasets, config,
                   weights, fit_log, sub,
                   configurations>>

\* allele_name.isdigit() or len(allele_name) < 5
NameRejected(key) == IsDigit(key) \/ Len(key) < 5

\* a threshold that also rejects an allele with exactly the minimum
TooFewSamplesInclusive(key) == Len(allele_datasets[key].X) <= lo.min_samples_per_allele

\* n_samples_allele < min_samples_per_allele
TooFewSamples(key) == Len(allele_datasets[key].X) < lo.min_samples_per_allele

\* lines 256-258
LeaveOutSkipName ==
    /\ pc = "lo_loop"
    /\ allele_iter /= <<>>
    /\ NameRejected(Head(allele_iter))
    /\ allele_iter' = Tail(allele_iter)
    /\ UNCHANGED <<pc, err, mainVars, kfVars, lo, lo_initial_weights, result_dict,
                   result_df, allele_datasets, config, weights, fit_log, sub,
                   configurations>>

\* lines 259-265
LeaveOutSkipFewSamples ==
    /\ pc = "lo_loop"
    /\ allele_iter /= <<>>
    /\ ~NameRejected(Head(allele_iter))
    /\ TooFewSamples(Head(allele_iter))
    /\ allele_iter' = Tail(allele_iter)
    /\ UNCHANGED <<pc, err, mainVars, kfVars, lo, lo_initial_weights, result_dict,
                   result_df, allele_datasets, config, weights, fit_log, sub,
                   configurations>>

\* the allele loop without the call of set_weights
LeaveOutRestoreOmitted(w, saved) == w

\* model.set_weights(initial_weights) of line 271
LeaveOutRestore(w, saved) == saved

\* arguments of the call of lines 295-303
KFoldCall(key) ==
    LET dataset == allele_datasets[key]
        X_allele == IF lo.binary_encoding
                    THEN indices_to_hotshot_encoding(dataset.X)
                    ELSE dataset.X
    IN [allele_name |-> NormalizeAlleleName(key),
        X |-> X_allele,
        Y |-> TargetsOf(dataset.ic50, lo.max_ic50),
        ic50 |-> dataset.ic50,
        n_training_epochs |-> config.n_epochs,
        cv_folds |-> lo.cv_folds,
        max_ic50 |-> lo.max_ic50]

\* lines 259-271 and 294-303 when n_pretrain_epochs is 0
LeaveOutBeginAllele ==
    /\ pc = "lo_loop"
    /\ allele_iter /= <<>>
    /\ ~NameRejected(Head(allele_iter))
    /\ ~TooFewSamples(Head(allele_iter))
    /\ ~(lo.n_pretrain_epochs > 0)
    /\ weights' = LeaveOutRestore(weights, lo_initial_weights)
    /\ kf' = KFoldCall(Head(allele_iter))
    /\ pc' = "kf_entry"
    /\ UNCHANGED <<err, mainVars, loVars, kf_initial_weights, kf_folds, cv_iter,
                   fold_aucs, fold_accuracies, allele_datasets, config, fit_log, sub,
                   configurations>>

\* the alleles the two comprehensions of lines 273-283 select
OtherAlleles(key) ==
    SelectSeq(DictItems(allele_datasets),
              LAMBDA other : NormalizeAlleleName(other) /= NormalizeAlleleName(key))

\* lines 259-303 when n_pretrain_epochs > 0.  np.vstack of an empty list
\* raises ValueError.  The comprehension of lines 280-283 reads .ic50 from
\* other_allele, which is the key of the dict item, a str.
LeaveOutPretrain ==
    /\ pc = "lo_loop"
    /\ allele_iter /= <<>>
    /\ ~NameRejected(Head(allele_iter))
    /\ ~TooFewSamples(Head(allele_iter))
    /\ lo.n_pretrain_epochs > 0
    /\ LET key == Head(allele_iter)
           others == OtherAlleles(key)
           X_parts == [j \in 1..Len(others) |-> allele_datasets[others[j]].X]
           ic50_sources == [j \in 1..Len(others) |-> StrObj(others[j])]
           start == LeaveOutRestore(weights, lo_initial_weights)
       IN IF X_parts = <<>>
          THEN /\ weights' = start
               /\ pc' = "crashed"
               /\ err' = "ValueError"
               /\ UNCHANGED <<kf, fit_log>>
          ELSE IF \E j \in 1..Len(ic50_sources) : ~HasIc50(ic50_sources[j])
          THEN /\ weights' = start
               /\ pc' = "crashed"
               /\ err' = "AttributeError"
               /\ UNCHANGED <<kf, fit_log>>
          ELSE LET X_stacked == Concat(X_parts)
                   X_other_alleles == IF lo.binary_encoding
                                      THEN indices_to_hotshot_encoding(X_stacked)
                                      ELSE X_stacked
                   ic50_other_alleles ==
                       Concat([j \in 1..Len(ic50_sources) |-> ic50_sources[j].ic50])
                   Y_other_alleles == TargetsOf(ic50_other_alleles, lo.max_ic50)
               IN /\ weights' = Fit(start, X_other_alleles, Y_other_alleles,
                                    lo.n_pretrain_epochs)
                  /\ fit_log' = Append(fit_log,
                        [kind |-> "pretrain", allele |-> NormalizeAlleleName(key),
                         cv_iter |-> -1, start |-> start, X |-> X_other_alleles,
                         Y |-> Y_other_alleles, X_test |-> <<>>])
                  /\ kf' = KFoldCall(key)
                  /\ pc' = "kf_entry"
                  /\ err' = err
    /\ UNCHANGED <<mainVars, loVars, kf_initial_weights, kf_folds, cv_iter,
                   fold_aucs, fold_accuracies, allele_datasets, config, sub,
                   configurations>>

\* lines 304-306
LeaveOutSkipNoFolds ==
    /\ pc = "kf_return"
    /\ Len(fold_aucs) = 0
    /\ allele_iter' = Tail(allele_iter)
    /\ pc' = "lo_loop"
    /\ UNCHANGED <<err, mainVars, kfVars, lo, lo_initial_weights, result_dict,
                   result_df, allele_datasets, config, weights, fit_log, sub,
                   configurations>>

\* the row of lines 307-314, as column name -> value
ResultRow(key, aucs, accuracies) ==
    [c \in Range(ResultColumns) |->
        CASE c = "allele_name" -> NormalizeAlleleName(key)
          [] c = "dataset_size" -> Len(allele_datasets[key].ic50)
          [] c = "auc_mean" -> Stat("mean", aucs)
          [] c = "auc_median" -> Stat("median", aucs)
          [] c = "auc_std" -> Stat("std", aucs)
          [] c = "auc_min" -> Stat("min", aucs)
          [] c = "auc_max" -> Stat("max", aucs)
          [] c = "accuracy_mean" -> Stat("mean", accuracies)
          [] c = "accuracy_median" -> Stat("median", accuracies)
          [] c = "accuracy_std" -> Stat("std", accuracies)
          [] c = "accuracy_min" -> Stat("min", accuracies)
          [] c = "accuracy_max" -> Stat("max", accuracies)]

\* lines 307-314
LeaveOutAppendRow ==
    /\ pc = "kf_return"
    /\ Len(fold_aucs) /= 0
    /\ LET row == ResultRow(Head(allele_iter), fold_aucs, fold_accuracies)
       IN result_dict' = [c \in Range(ResultColumns) |-> Append(result_dict[c], row[c])]
    /\ allele_iter' = Tail(allele_iter)
    /\ pc' = "lo_loop"
    /\ UNCHANGED <<err, mainVars, kfVars, lo, lo_initial_weights, result_df,
                   allele_datasets, config, weights, fit_log, sub,
                   configurations>>

\* line 315
LeaveOutReturn ==
    /\ pc = "lo_loop"
    /\ allele_iter = <<>>
    /\ result_df' = result_dict
    /\ pc' = "lo_return"
    /\ UNCHANGED <<err, mainVars, kfVars, lo, lo_initial_weights, allele_iter,
                   result_dict, allele_datasets, config, weights, fit_log, sub,
                   configurations>>

----------------------------------------------------------------------------
\* evaluate_model_config and the main loop of the model selection script

\* make_embedding_network / make_hotshot_network: a freshly initialised model
NewModel(c) ==
    <<[network |-> IF c.embedding_size /= 0 THEN "embedding" ELSE "hotshot",
       hidden_layer_size |-> c.hidden_layer_size,
       embedding_size |-> c.embedding_size,
       activation |-> c.activation,
       init |-> c.init,
       loss |-> c.loss,
       dropout_probability |-> c.dropout_probability]>>

\* arguments of the call of lines 344-350
LeaveOutCall(c, a) ==
    [binary_encoding |-> (c.embedding_size = 0),
     n_pretrain_epochs |-> c.n_pretrain_epochs,
     min_samples_per_allele |-> a.min_samples_per_allele,
     cv_folds |-> a.cv_folds,
     max_ic50 |-> c.max_ic50]

\* lines 354-356: the list configs, which the run never changes
configs ==
    generate_all_model_configs(DefaultEmbeddingSizes, args.training_epochs,
                               args.max_dropout)

\* lines 367-375 and 324-350: next configuration, build its model
MainNextConfig ==
    /\ pc = "main_loop"
    /\ i < Len(configs)
    /\ LET c == configs[i + 1]
       IN /\ config' = c
          /\ weights' = NewModel(c)
          /\ lo' = LeaveOutCall(c, args)
    /\ pc' = "lo_entry"
    /\ UNCHANGED <<err, mainVars, kfVars, lo_initial_weights, allele_iter,
                   result_dict, result_df, allele_datasets, fit_log, sub,
                   configurations>>

TableColumns == ResultColumns \o <<"config_idx">> \o ConfigFields

\* lines 376-380: the result table with the columns of the configuration
WithConfigColumns(df, idx, c) ==
    LET n_rows == Len(df["allele_name"]) IN
    [col \in Range(TableColumns) |->
        IF col \in Range(ResultColumns) THEN df[col]
        ELSE IF col = "config_idx" THEN [r \in 1..n_rows |-> idx]
        ELSE [r \in 1..n_rows |-> c[col]]]

\* result_df.to_csv(f, index=False): a header line, then one line per row
ToCsv(df) ==
    [header |-> TableColumns,
     rows |-> [r \in 1..Len(df["allele_name"]) |->
                  [k \in 1..Len(TableColumns) |-> df[TableColumns[k]][r]]]]

\* a file mode that does not depend on the index
FileModeAlwaysTruncate(idx) == "w"

\* file_mode = "a" if i > 0 else "w"
FileMode(idx) == IF idx > 0 THEN "a" ELSE "w"

\* open(filename, mode) followed by a write of block
WriteFile(content, mode, block) ==
    IF mode = "a" THEN Append(content, block) ELSE <<block>>

\* lines 376-395
MainWrite ==
    /\ pc = "lo_return"
    /\ LET df == WithConfigColumns(result_df, i, config)
       IN /\ results_file' = WriteFile(results_file, FileMode(i), ToCsv(df))
          /\ all_dataframes' = Append(all_dataframes, df)
    /\ i' = i + 1
    /\ pc' = "main_loop"
    /\ UNCHANGED <<err, args, loVars, kfVars, allele_datasets, config,
                   weights, fit_log, sub,
                   configurations>>

\* lines 397-416
MainFinish ==
    /\ pc = "main_loop"
    /\ i = Len(configs)
    /\ pc' = "done"
    /\ UNCHANGED <<err, mainVars, loVars, kfVars, allele_datasets, config,
                   weights, fit_log, sub,
                   configurations>>

----------------------------------------------------------------------------
\* Initial states

\* --min-samples-per-allele, --cv-folds, --training-epochs, --max-dropout
\* of a whole run
MainArgsChoices ==
    [min_samples_per_allele : {2},
     cv_folds : {2},
     training_epochs : {100},
     max_dropout : {25}]

\* the same for a single call of evaluate_model_config
CVArgsChoices ==
    [min_samples_per_allele : {1, 3},
     cv_folds : {2},
     training_epochs : {100},
     max_dropout : {25}]

\* --training-epochs for a stand-alone k-fold call; 0 makes the function
\* choose the number of epochs
KFoldEpochsChoices == {0, 100}

\* content of the results file before the run: left there by an earlier run
StaleFiles == {<<[header |-> <<"stale">>, rows |-> <<>>]>>}

NoKFold ==
    [allele_name |-> <<>>, X |-> <<>>, Y |-> <<>>, ic50 |-> <<>>,
     n_training_epochs |-> 0, cv_folds |-> 0, max_ic50 |-> 0]

NoLeaveOut ==
    [binary_encoding |-> FALSE, n_pretrain_epochs |-> 0,
     min_samples_per_allele |-> 0, cv_folds |-> 0, max_ic50 |-> 0]

InitLocals ==
    /\ err = "none"
    /\ lo_initial_weights = <<>>
    /\ allele_iter = <<>>
    /\ result_dict = EmptyResultDict
    /\ result_df = EmptyResultDict
    /\ kf_initial_weights = <<>>
    /\ kf_folds = <<>>
    /\ cv_iter = 0
    /\ fold_aucs = <<>>
    /\ fold_accuracies = <<>>
    /\ fit_log = <<>>
    /\ sub = None
    /\ configurations = <<>>

\* the script after load_data, before the first configuration
Init ==
    /\ pc = "main_loop"
    /\ args \in MainArgsChoices
    /\ LoadedData(allele_datasets, MainKeySets, MainMaxSamples)
    /\ i = 0
    /\ config = None
    /\ results_file \in StaleFiles
    /\ all_dataframes = <<>>
    /\ weights = <<>>
    /\ lo = NoLeaveOut
    /\ kf = NoKFold
    /\ InitLocals

Next ==
    \/ MainNextConfig
    \/ MainWrite
    \/ MainFinish
    \/ LeaveOutEnter
    \/ LeaveOutSkipName
    \/ LeaveOutSkipFewSamples
    \/ LeaveOutBeginAllele
    \/ LeaveOutPretrain
    \/ LeaveOutSkipNoFolds
    \/ LeaveOutAppendRow
    \/ LeaveOutReturn
    \/ KFoldEnter
    \/ KFoldSkip
    \/ KFoldFit
    \/ KFoldReturn

Spec == Init /\ [][Next]_vars

\* the configurations a single call of evaluate_model_config is started with:
\* one for each combination of network kind and pre-training
CVConfigs ==
    {c \in Range(configs) :
        /\ c.activation = "relu"
        /\ c.init = "glorot_uniform"
        /\ c.hidden_layer_size = 64
        /\ c.dropout_probability = 0
        /\ c.max_ic50 = 5000}

\* one call of leave_out_allele_cross_validation, from evaluate_model_config
InitCV ==
    /\ pc = "lo_entry"
    /\ args \in CVArgsChoices
    /\ config \in CVConfigs
    /\ LoadedData(allele_datasets, CVKeySets, MaxSamples)
    /\ i = 0
    /\ results_file = <<>>
    /\ all_dataframes = <<>>
    /\ weights = NewModel(config)
    /\ lo = LeaveOutCall(config, args)
    /\ kf = NoKFold
    /\ InitLocals

NextCV ==
    \/ LeaveOutEnter
    \/ LeaveOutSkipName
    \/ LeaveOutSkipFewSamples
    \/ LeaveOutBeginAllele
    \/ LeaveOutPretrain
    \/ LeaveOutSkipNoFolds
    \/ LeaveOutAppendRow
    \/ LeaveOutReturn
    \/ KFoldEnter
    \/ KFoldSkip
    \/ KFoldFit
    \/ KFoldReturn

SpecCV == InitCV /\ [][NextCV]_vars

\* the weights a stand-alone call finds in the model: a new model, or one
\* that has been trained before
KFoldEntryWeights ==
    {<<[network |-> "hotshot"]>>,
     <<[network |-> "hotshot"]>> \o <<[X |-> <<>>, Y |-> <<>>, nb_epoch |-> 10]>>}

\* one call of kfold_cross_validation_for_single_allele
InitKFold ==
    /\ pc = "kf_entry"
    /\ args = None
    /\ allele_datasets = <<>>
    /\ i = 0
    /\ config = None
    /\ results_file = <<>>
    /\ all_dataframes = <<>>
    /\ weights \in KFoldEntryWeights
    /\ lo = NoLeaveOut
    /\ \E ic50 \in SeqsUpTo(Ic50Values, 1, MaxFoldSamples), folds \in {2, 3},
          epochs \in KFoldEpochsChoices :
          kf = [allele_name |-> K_A0201,
                X |-> Rows(K_A0201, Len(ic50)),
                Y |-> TargetsOf(ic50, 5000),
                ic50 |-> ic50,
                n_training_epochs |-> epochs,
                cv_folds |-> folds,
                max_ic50 |-> 5000]
    /\ InitLocals

NextKFold ==
    \/ KFoldEnter
    \/ KFoldSkip
    \/ KFoldFit
    \/ KFoldReturn

SpecKFold == InitKFold /\ [][NextKFold]_vars

\* --training-epochs and --max-dropout of a call of generate_all_model_configs;
\* --max-dropout is any float, 0 included
GridArgsChoices ==
    [min_samples_per_allele : {5},
     cv_folds : {5},
     training_epochs : {100, 125},
     max_dropout : {0, 25, 50}]

\* lines 129-148: one iteration of the loop nest, which builds one
\* ModelConfig and appends it
GenerateAppend ==
    /\ pc = "generate"
    /\ LET all == generate_all_model_configs(DefaultEmbeddingSizes,
                        args.training_epochs, args.max_dropout)
       IN /\ Len(configurations) < Len(all)
          /\ configurations' = Append(configurations, all[Len(configurations) + 1])
    /\ UNCHANGED <<pc, err, mainVars, loVars, kfVars, allele_datasets, config,
                   weights, fit_log, sub>>

\* line 149
GenerateReturn ==
    /\ pc = "generate"
    /\ Len(configurations) =
          NumberOfIterations(LoopSizes(DefaultEmbeddingSizes))
    /\ pc' = "generated"
    /\ UNCHANGED <<err, mainVars, loVars, kfVars, allele_datasets, config,
                   weights, fit_log, sub, configurations>>

\* the call of lines 354-356
InitGrid ==
    /\ pc = "generate"
    /\ args \in GridArgsChoices
    /\ allele_datasets = <<>>
    /\ i = 0
    /\ config = None
    /\ results_file = <<>>
    /\ all_dataframes = <<>>
    /\ weights = <<>>
    /\ lo = NoLeaveOut
    /\ kf = NoKFold
    /\ InitLocals

NextGrid ==
    \/ GenerateAppend
    \/ GenerateReturn

SpecGrid == InitGrid /\ [][NextGrid]_vars

----------------------------------------------------------------------------
\* subsample_performance of the dataset size sensitivity script.  Its state
\* is the record sub.

RECURSIVE Pow(_, _)
Pow(b, e) == IF e = 0 THEN 1 ELSE b * Pow(b, e - 1)

\* The k-th of num points (k from 0) that np.linspace places between log(least)
\* and log(most) is the logarithm of least^((num-1-k)/(num-1)) * most^(k/(num-1));
\* with num = 1 the only point is log(least).  Radicand and Degree give that
\* value as the Degree-th root of Radicand.
Degree(num) == IF num = 1 THEN 1 ELSE num - 1
Radicand(least, most, num, k) ==
    IF num = 1 THEN least ELSE Pow(least, num - 1 - k) * Pow(most, k)

\* largest integer whose d-th power is at most x
FloorRoot(x, d) == CHOOSE r \in 0..x : Pow(r, d) <= x /\ Pow(r + 1, d) > x

\* np.exp(...).astype(int) of one point.  The exact value is truncated; when
\* it is an integer above 1 the rounding of log and exp decides whether the
\* float lies just below it or not (exp(log(3.0)) > 3 > exp(log(5.0))), so
\* both outcomes are kept.  log(1) = 0 and exp(0) = 1 are exact.
TruncatedExp(least, most, num, k) ==
    LET x == Radicand(least, most, num, k)
        d == Degree(num)
        r == FloorRoot(x, d)
    IN IF Pow(r, d) = x /\ r > 1 THEN {r - 1, r} ELSE {r}

\* the increment of line 121
PlusOne(v) == v + 1

\* lines 117-121: the arrays sample_sizes the run may compute
SampleSizes(least, most, num) ==
    {sizes \in [1..num -> 1..(least + most + 1)] :
        \A k \in 1..num :
            \E t \in TruncatedExp(least, most, num, k - 1) : sizes[k] = PlusOne(t)}

SubColumns == <<"num_samples", "idx", "auc", "f1", "impute">>

EmptyResults == [c \in Range(SubColumns) |-> <<>>]

\* model_fn(): a new predictor with its own initial weights
NewPredictor(n) == <<[predictor |-> n]>>

\* fit_dataset(dataset_train, dataset_imputed, ...)
FitDataset(w, train, imputed) == Append(w, [train |-> train, pretrain |-> imputed])

\* an idx column that holds the repeat
IdxColumnRepeat(size_index, repeat) == repeat

\* the value of the idx column, lines 173 and 195
IdxColumn(size_index, repeat) == size_index

\* a second block of appends that leaves out the idx column
AppendResultIdxOnce(results, n_train, idx, w, test, impute) ==
    [c \in Range(SubColumns) |->
        IF c = "idx" /\ impute THEN results[c]
        ELSE Append(results[c],
                CASE c = "num_samples" -> n_train
                  [] c = "idx" -> idx
                  [] c = "auc" -> Score("auc", w, test)
                  [] c = "f1" -> Score("f1", w, test)
                  [] c = "impute" -> impute)]

\* the appends of lines 172-176 and 194-198
AppendResult(results, n_train, idx, w, test, impute) ==
    [c \in Range(SubColumns) |->
        Append(results[c],
            CASE c = "num_samples" -> n_train
              [] c = "idx" -> idx
              [] c = "auc" -> Score("auc", w, test)
              [] c = "f1" -> Score("f1", w, test)
              [] c = "impute" -> impute)]

\* lines 103-121
SubEnter ==
    /\ sub.pc = "entry"
    /\ LET cap == Min((2 * sub.n_total) \div 3, sub.max_training_samples)
       IN \E sizes \in SampleSizes(sub.min_training_samples, cap, sub.n_subsample_sizes) :
            sub' = [sub EXCEPT !.pc = "loop",
                               !.max_training_samples = cap,
                               !.results = EmptyResults,
                               !.sample_sizes = sizes,
                               !.i = 0,
                               !.repeat = 0]
    /\ UNCHANGED nipsVars

\* lines 123-159: one pass of the two loops up to the first fit: the split,
\* the new model and the copy of its weights
SubSplit ==
    /\ sub.pc = "loop"
    /\ sub.i < Len(sub.sample_sizes)
    /\ LET n_train == sub.sample_sizes[sub.i + 1]
           split == [n_train |-> n_train, size_index |-> sub.i, repeat |-> sub.repeat]
           w == NewPredictor(sub.models + 1)
       IN sub' = [sub EXCEPT
                    !.pc = "fit",
                    !.n_train = n_train,
                    !.dataset_train = [part |-> "train", split |-> split],
                    !.dataset_test = [part |-> "test", split |-> split],
                    !.dataset_imputed =
                        IF sub.imputer = "none" THEN None
                        ELSE [part |-> "imputed", split |-> split,
                              method |-> sub.imputer],
                    !.models = sub.models + 1,
                    !.weights = w,
                    !.initial_weights = w]
    /\ UNCHANGED nipsVars

\* for _ in range(n_repeats_per_size) inside for i, n_train in enumerate(...)
NextPass(st) ==
    IF st.repeat + 1 < st.n_repeats_per_size
    THEN [st EXCEPT !.pc = "loop", !.repeat = st.repeat + 1]
    ELSE [st EXCEPT !.pc = "loop", !.repeat = 0, !.i = st.i + 1]

\* lines 161-179
SubFitPlain ==
    /\ sub.pc = "fit"
    /\ LET trained == FitDataset(sub.weights, sub.dataset_train, None)
           fitted == [sub EXCEPT
                        !.weights = trained,
                        !.results = AppendResult(sub.results, sub.n_train,
                                        IdxColumn(sub.i, sub.repeat), trained,
                                        sub.dataset_test, FALSE),
                        !.origin = Append(sub.origin,
                                        [size_index |-> sub.i, repeat |-> sub.repeat]),
                        !.fits = Append(sub.fits,
                                        [size_index |-> sub.i, repeat |-> sub.repeat,
                                         impute |-> FALSE, start |-> sub.weights,
                                         initial |-> sub.initial_weights,
                                         train |-> sub.dataset_train,
                                         test |-> sub.dataset_test])]
       IN sub' = IF sub.dataset_imputed = None
                 THEN NextPass(fitted)
                 ELSE [fitted EXCEPT !.pc = "impute"]
    /\ UNCHANGED nipsVars

\* the second fit without the call of set_weights
SubRestoreOmitted(w, saved) == w

\* model.set_weights(initial_weights) of line 182
SubRestore(w, saved) == saved

\* lines 181-198
SubFitImputed ==
    /\ sub.pc = "impute"
    /\ LET start == SubRestore(sub.weights, sub.initial_weights)
           trained == FitDataset(start, sub.dataset_train, sub.dataset_imputed)
           fitted == [sub EXCEPT
                        !.weights = trained,
                        !.results = AppendResult(sub.results, sub.n_train,
                                        IdxColumn(sub.i, sub.repeat), trained,
                                        sub.dataset_test, TRUE),
                        !.origin = Append(sub.origin,
                                        [size_index |-> sub.i, repeat |-> sub.repeat]),
                        !.fits = Append(sub.fits,
                                        [size_index |-> sub.i, repeat |-> sub.repeat,
                                         impute |-> TRUE, start |-> start,
                                         initial |-> sub.initial_weights,
                                         train |-> sub.dataset_train,
                                         test |-> sub.dataset_test])]
       IN sub' = NextPass(fitted)
    /\ UNCHANGED nipsVars

\* line 200
SubReturn ==
    /\ sub.pc = "loop"
    /\ sub.i = Len(sub.sample_sizes)
    /\ sub' = [sub EXCEPT !.pc = "done"]
    /\ UNCHANGED nipsVars

\* the call of lines 211-223
InitSub ==
    /\ pc = "subsample"
    /\ err = "none"
    /\ args = None
    /\ allele_datasets = <<>>
    /\ i = 0
    /\ config = None
    /\ results_file = <<>>
    /\ all_dataframes = <<>>
    /\ weights = <<>>
    /\ lo = NoLeaveOut
    /\ kf = NoKFold
    /\ lo_initial_weights = <<>>
    /\ allele_iter = <<>>
    /\ result_dict = EmptyResultDict
    /\ result_df = EmptyResultDict
    /\ kf_initial_weights = <<>>
    /\ kf_folds = <<>>
    /\ cv_iter = 0
    /\ fold_aucs = <<>>
    /\ fold_accuracies = <<>>
    /\ fit_log = <<>>
    /\ configurations = <<>>
    /\ \E n_total \in MinTotal..MaxTotal,
          imputer \in {"none", "mice"},
          lo_samples \in 1..MaxMinTraining,
          hi_samples \in 1..MaxMaxTraining,
          num \in 1..MaxSizes,
          repeats \in 1..MaxRepeats :
            sub = [pc |-> "entry",
                   n_total |-> n_total,
                   imputer |-> imputer,
                   min_training_samples |-> lo_samples,
                   max_training_arg |-> hi_samples,
                   max_training_samples |-> hi_samples,
                   n_subsample_sizes |-> num,
                   n_repeats_per_size |-> repeats,
                   results |-> EmptyResults,
                   sample_sizes |-> <<>>,
                   i |-> 0,
                   repeat |-> 0,
                   n_train |-> 0,
                   dataset_train |-> None,
                   dataset_test |-> None,
                   dataset_imputed |-> None,
                   models |-> 0,
                   weights |-> <<>>,
                   initial_weights |-> <<>>,
                   origin |-> <<>>,
                   fits |-> <<>>]

NextSub ==
    \/ SubEnter
    \/ SubSplit
    \/ SubFitPlain
    \/ SubFitImputed
    \/ SubReturn

SpecSub == InitSub /\ [][NextSub]_vars

----------------------------------------------------------------------------
\* Properties of kfold_cross_validation_for_single_allele (SpecKFold)

CVFits == {k \in 1..Len(fit_log) : fit_log[k].kind = "cv"}

\* C1: every fit of a fold that is not skipped starts from the weights the
\* model held when the function was entered: they are the weights saved on
\* entry, they are the same for every pair of folds, and they contain none of
\* the training of another fold.
C1_FoldsStartFromEntryWeights ==
    /\ \A k \in CVFits :
          /\ fit_log[k].start = kf_initial_weights
          /\ fit_log[k].start \in KFoldEntryWeights
    /\ \A j, k \in CVFits : fit_log[j].start = fit_log[k].start

\* two folds were fit in one call and a third one was skipped
C1_Witness ==
    /\ pc = "kf_return"
    /\ Len(kf_folds) = 3
    /\ Cardinality(CVFits) = 2

\* the test labels of fold f are all true or all false
C2_AllSame(f) ==
    \A a, b \in Range(kf_folds[f].test) : (kf.ic50[a] <= 500) = (kf.ic50[b] <= 500)

C2_GoodFolds == {f \in 1..Len(kf_folds) : ~C2_AllSame(f)}

C2_Step ==
    (pc = "kf_loop" /\ cv_iter < Len(kf_folds)) =>
        /\ pc' = "kf_loop"
        /\ err' = "none"
        /\ cv_iter' = cv_iter + 1
        /\ IF C2_AllSame(cv_iter + 1)
           THEN /\ weights' = weights
                /\ fit_log' = fit_log
                /\ fold_aucs' = fold_aucs
                /\ fold_accuracies' = fold_accuracies
           ELSE /\ Len(fit_log') = Len(fit_log) + 1
                /\ Len(fold_aucs') = Len(fold_aucs) + 1
                /\ Len(fold_accuracies') = Len(fold_accuracies) + 1

C2_OnReturn ==
    pc = "kf_return" =>
        /\ Len(fold_aucs) = Len(fold_accuracies)
        /\ Len(fold_aucs) = Cardinality(C2_GoodFolds)
        /\ Len(fold_aucs) <= kf.cv_folds

\* C2: a fold whose test labels are all true or all false is skipped without
\* ending the run: the weights are left alone, nothing is fit, no AUC and no
\* accuracy is recorded and the loop goes on with the next fold; every other
\* fold records one AUC and one accuracy, so on return both lists have the
\* length of the number of non-degenerate folds, at most cv_folds.
C2_DegenerateFoldsSkipped == [][C2_Step]_vars /\ []C2_OnReturn

\* a call returned after it skipped all-true and all-false folds and fit one
C2_Witness ==
    /\ pc = "kf_return"
    /\ Len(fold_aucs) >= 1
    /\ \E f \in 1..Len(kf_folds) : \A a \in Range(kf_folds[f].test) : kf.ic50[a] <= 500
    /\ \E f \in 1..Len(kf_folds) : \A a \in Range(kf_folds[f].test) : kf.ic50[a] > 500

----------------------------------------------------------------------------
\* Properties of the whole model selection run (Spec)

C3_Halted == pc \in {"done", "crashed"}

\* C3: for every configuration of the grid, those with n_pretrain_epochs > 0
\* included, the main loop builds a model, completes the cross-validation and
\* writes the table: the run ends without an exception, with one table per
\* configuration in the results file, in grid order.
C3_EveryConfigurationWritten ==
    C3_Halted =>
        /\ err = "none"
        /\ Len(all_dataframes) = Len(configs)
        /\ Len(results_file) = Len(configs)
        /\ \A k \in 1..Len(configs) :
              /\ results_file[k] = ToCsv(all_dataframes[k])
              /\ \A c \in Range(ConfigFields) :
                    \A r \in 1..Len(all_dataframes[k][c]) :
                        all_dataframes[k][c][r] = configs[k][c]

\* position of the column config_idx in a line of the file
C4_ConfigIdxColumn == Len(ResultColumns) + 1

C4_FileHoldsTables ==
    i > 0 =>
        /\ Len(results_file) = i
        /\ \A k \in 1..i :
              /\ results_file[k] = ToCsv(all_dataframes[k])
              /\ \A r \in 1..Len(results_file[k].rows) :
                    results_file[k].rows[r][C4_ConfigIdxColumn] = k - 1

C4_Step ==
    results_file' /= results_file =>
        /\ i' = i + 1
        /\ IF i = 0
           THEN Len(results_file') = 1
           ELSE /\ Len(results_file') = Len(results_file) + 1
                /\ SubSeq(results_file', 1, Len(results_file)) = results_file

\* C4: the results file is built append-only within a run.  Only the write of
\* configuration 0 truncates it, every later write leaves what the file holds
\* in place and adds one table, so once configuration i is written the file
\* holds the tables of configurations 0..i in that order and nothing else.
C4_AppendOnly == [][C4_Step]_vars /\ []C4_FileHoldsTables

\* three configurations were written, each table with a row
C4_Witness ==
    /\ i = 3
    /\ \A k \in 1..3 : Len(results_file[k].rows) = 1
    /\ results_file[1] /= results_file[2]

----------------------------------------------------------------------------
\* Properties of subsample_performance (SpecSub)

SubRows == 1..Len(sub.origin)

\* C5 as stated: the idx column of a row holds the repeat index, within its
\* sample size, of the pass that produced the row.
C5_IdxIsRepeatIndex ==
    sub.pc /= "entry" =>
        \A r \in SubRows : sub.results["idx"][r] = sub.origin[r].repeat

\* C5, amended: each row records the sample count, the AUC, the F1 score and
\* the imputation flag of one trained model, and its idx column holds the
\* position (from 0) of the row's sample size in sample_sizes, the same value
\* for every repeat of that size.
C5_IdxIsSizeIndex ==
    sub.pc /= "entry" =>
        /\ \A c \in Range(SubColumns) : Len(sub.results[c]) = Len(sub.origin)
        /\ \A r \in SubRows :
              /\ sub.results["idx"][r] = sub.origin[r].size_index
              /\ sub.results["num_samples"][r] =
                    sub.sample_sizes[sub.origin[r].size_index + 1]
              /\ sub.results["impute"][r] = sub.fits[r].impute
        /\ \A q, r \in SubRows :
              sub.origin[q].size_index = sub.origin[r].size_index
                  => sub.results["idx"][q] = sub.results["idx"][r]

\* a row of the second repeat of the first sample size, and a row of the
\* first repeat of the second sample size
C5_Witness ==
    /\ sub.pc = "done"
    /\ \E r \in SubRows : sub.origin[r].repeat = 1 /\ sub.origin[r].size_index = 0
    /\ \E r \in SubRows : sub.origin[r].repeat = 0 /\ sub.origin[r].size_index = 1

\* C7: every training-set size used for a split is at most 2/3 of the number
\* of samples of the allele and at most the argument max_training_samples.
C7_TrainSizeWithinLimits ==
    sub.pc \in {"fit", "impute"} =>
        /\ sub.n_train <= (2 * sub.n_total) \div 3
        /\ sub.n_train <= sub.max_training_arg

ImputedFits == {k \in 1..Len(sub.fits) : sub.fits[k].impute}

\* C9: with an imputer, the fit with imputation starts from the weights
\* captured right after model_fn(), which are the weights the fit without
\* imputation started from and hold nothing of that fit; both fits use the
\* same training set and are scored on the same test set.
C9_ImputedFitStartsFresh ==
    sub.pc /= "entry" =>
        \A k \in ImputedFits :
            /\ k > 1
            /\ ~sub.fits[k - 1].impute
            /\ sub.fits[k - 1].size_index = sub.fits[k].size_index
            /\ sub.fits[k - 1].repeat = sub.fits[k].repeat
            /\ sub.fits[k].start = sub.fits[k - 1].start
            /\ sub.fits[k].start = sub.fits[k].initial
            /\ Len(sub.fits[k].start) = 1
            /\ sub.fits[k].train = sub.fits[k - 1].train
            /\ sub.fits[k].test = sub.fits[k - 1].test
            /\ sub.results["auc"][k].X_test = sub.results["auc"][k - 1].X_test

\* two passes with an imputer, each with its pair of fits
C9_Witness ==
    /\ sub.imputer /= "none"
    /\ Cardinality(ImputedFits) >= 2

C12_Prefix(a, b) == Len(a) <= Len(b) /\ SubSeq(b, 1, Len(a)) = a

\* no step removes or changes a row
C12_Step ==
    \A c \in Range(SubColumns) :
        C12_Prefix(sub.results[c], sub'.results[c])

C12_Pairs == (0..(sub.n_subsample_sizes - 1)) \X (0..(sub.n_repeats_per_size - 1))

C12_Position(p) == p[1] * sub.n_repeats_per_size + p[2]

\* the rows of the pass for pair p with the given imputation flag
C12_RowsOf(p, flag) ==
    {q \in 1..Len(sub.results["impute"]) :
        /\ sub.origin[q] = [size_index |-> p[1], repeat |-> p[2]]
        /\ sub.results["impute"][q] = flag}

\* the rows a pair has when the function is at sub.pc: both of a finished
\* pass, the first of a pass between its two fits, none of a later pass
C12_Expected(p, flag) ==
    LET here == C12_Position(<<sub.i, sub.repeat>>)
        second == IF sub.imputer = "none" THEN 0 ELSE 1
    IN CASE C12_Position(p) < here -> IF flag THEN second ELSE 1
         [] C12_Position(p) = here /\ sub.pc = "impute" -> IF flag THEN 0 ELSE 1
         [] OTHER -> 0

C12_Rows ==
    sub.pc /= "entry" =>
        /\ DOMAIN sub.results = Range(SubColumns)
        /\ Cardinality(Range(SubColumns)) = 5
        /\ \A c \in Range(SubColumns) :
              Len(sub.results[c]) = Len(sub.results["impute"])
        /\ Len(sub.origin) = Len(sub.results["impute"])
        /\ \A p \in C12_Pairs : \A flag \in BOOLEAN :
              Cardinality(C12_RowsOf(p, flag)) = C12_Expected(p, flag)
        /\ \A q \in 1..Len(sub.results["impute"]) :
              sub.results["impute"][q] =>
                  /\ q > 1
                  /\ ~sub.results["impute"][q - 1]
                  /\ sub.origin[q - 1] = sub.origin[q]
                  /\ sub.results["num_samples"][q - 1] = sub.results["num_samples"][q]
                  /\ sub.results["idx"][q - 1] = sub.results["idx"][q]
        /\ sub.imputer = "none" =>
              \A q \in 1..Len(sub.results["impute"]) : ~sub.results["impute"][q]
        /\ (sub.imputer /= "none" /\ sub.pc \in {"loop", "done"}) =>
              \A q \in 1..Len(sub.results["impute"]) :
                  ~sub.results["impute"][q] =>
                      /\ q < Len(sub.results["impute"])
                      /\ sub.results["impute"][q + 1]
        /\ sub.pc = "done" =>
              Len(sub.results["impute"]) =
                  sub.n_subsample_sizes * sub.n_repeats_per_size
                      * (IF sub.imputer = "none" THEN 1 ELSE 2)

\* C12: the table of subsample_performance only grows and its five columns
\* have equal length; every (sample size, repeat) pair gets exactly one row
\* with impute=False and, exactly when there is an imputed training set, one
\* row with impute=True right after it with the same num_samples and idx;
\* without an imputer there is no impute=True row, and the returned table has
\* n_subsample_sizes * n_repeats_per_size rows without an imputer and twice
\* as many with one.
C12_TableGrowsByPasses == [][C12_Step]_vars /\ []C12_Rows

\* a returned table of two sizes and two repeats with an imputer: 8 rows
C12_Witness ==
    /\ sub.pc = "done"
    /\ sub.imputer /= "none"
    /\ sub.n_subsample_sizes = 2
    /\ sub.n_repeats_per_size = 2
    /\ Len(sub.results["impute"]) = 8
    /\ sub.results["impute"] = <<FALSE, TRUE, FALSE, TRUE, FALSE, TRUE, FALSE, TRUE>>

----------------------------------------------------------------------------
\* Properties of leave_out_allele_cross_validation (SpecCV)

C6_Size(key) == Len(allele_datasets[key].ic50)

C6_NameOk(key) ==
    /\ Len(key) >= 5
    /\ \E k \in 1..Len(key) : key[k] \notin Digits

\* some fold of the allele has a binder and a non-binder in its test set
C6_HasGoodFold(key) ==
    \E f \in 1..lo.cv_folds :
        LET test == KFold(C6_Size(key), lo.cv_folds)[f].test
        IN \E a, b \in Range(test) :
              /\ allele_datasets[key].ic50[a] <= 500
              /\ allele_datasets[key].ic50[b] > 500

C6_Evaluated(key) ==
    /\ C6_NameOk(key)
    /\ C6_Size(key) >= lo.min_samples_per_allele
    /\ C6_HasGoodFold(key)

C6_ExpectedKeys == SelectSeq(SortedKeys(allele_datasets), C6_Evaluated)

\* C6: no predictor is trained for an allele with fewer than
\* min_samples_per_allele samples and no row is emitted for it.  The returned
\* table has one row exactly for each allele that passes the name filter, has
\* at least min_samples_per_allele samples and has a non-degenerate fold, in
\* sorted order of the allele keys, and the twelve columns always have the
\* same length.
C6_RowsOfEvaluatedAlleles ==
    /\ \A k \in 1..Len(fit_log) :
          \A r \in 1..Len(fit_log[k].X) :
              fit_log[k].kind = "cv" =>
                  C6_Size(fit_log[k].X[r].allele) >= lo.min_samples_per_allele
    /\ \A c \in Range(ResultColumns) :
          Len(result_dict[c]) = Len(result_dict["allele_name"])
    /\ pc = "lo_return" =>
          /\ \A c \in Range(ResultColumns) :
                Len(result_df[c]) = Len(C6_ExpectedKeys)
          /\ \A r \in 1..Len(C6_ExpectedKeys) :
                /\ result_df["allele_name"][r] = NormalizeAlleleName(C6_ExpectedKeys[r])
                /\ result_df["dataset_size"][r] = C6_Size(C6_ExpectedKeys[r])

\* a table with one row, of an allele with exactly the minimum of samples, was
\* returned for a dataset that holds an allele with a good name and too few
\* samples
C6_Witness ==
    /\ pc = "lo_return"
    /\ Len(result_df["allele_name"]) = 1
    /\ C6_Size(C6_ExpectedKeys[1]) = lo.min_samples_per_allele
    /\ \E key \in DOMAIN allele_datasets :
          C6_NameOk(key) /\ C6_Size(key) < lo.min_samples_per_allele

\* the pre-training entry of the allele in the history of fits, if any
C8_PretrainOf(allele) ==
    {k \in 1..Len(fit_log) : fit_log[k].kind = "pretrain" /\ fit_log[k].allele = allele}

\* C8: the model is reset to the weights it had on entry before each
\* evaluated allele, so what an allele starts from does not depend on the
\* alleles before it: its pre-training starts from the entry weights, and
\* each of its folds starts from the entry weights followed only by its own
\* pre-training.
C8_AllelesStartFromEntryWeights ==
    pc /= "lo_entry" =>
        /\ lo_initial_weights = NewModel(config)
        /\ \A k \in 1..Len(fit_log) :
              IF fit_log[k].kind = "pretrain"
              THEN fit_log[k].start = lo_initial_weights
              ELSE IF lo.n_pretrain_epochs > 0
              THEN \E p \in C8_PretrainOf(fit_log[k].allele) :
                      /\ p < k
                      /\ fit_log[k].start =
                            Fit(lo_initial_weights, fit_log[p].X, fit_log[p].Y,
                                lo.n_pretrain_epochs)
              ELSE fit_log[k].start = lo_initial_weights

\* folds of two different alleles were fit in one call
C8_Witness ==
    \E j, k \in CVFits : fit_log[j].allele /= fit_log[k].allele

C10_Passed(key) == C6_NameOk(key) /\ C6_Size(key) >= lo.min_samples_per_allele

\* the rows of every allele whose normalized name differs from that of key
C10_OtherRows(key) ==
    UNION {Range(allele_datasets[other].X) :
             other \in {o \in DOMAIN allele_datasets :
                          NormalizeAlleleName(o) /= NormalizeAlleleName(key)}}

C10_RowId(x) == [allele |-> x.allele, row |-> x.row]

\* C10: when n_pretrain_epochs > 0, an allele that passes the filters is
\* pre-trained, before any of its cross-validation fits, on the samples of
\* every allele with a different normalized name and on no sample of its own,
\* with as many targets as inputs.
C10_PretrainOnOtherAlleles ==
    (/\ lo.n_pretrain_epochs > 0
     /\ pc \in {"kf_entry", "kf_loop", "kf_return", "crashed"}
     /\ allele_iter /= <<>>
     /\ C10_Passed(Head(allele_iter))) =>
        LET key == Head(allele_iter)
            name == NormalizeAlleleName(key)
        IN \E p \in C8_PretrainOf(name) :
              /\ {C10_RowId(x) : x \in Range(fit_log[p].X)}
                    = {C10_RowId(x) : x \in C10_OtherRows(key)}
              /\ \A x \in Range(fit_log[p].X) : NormalizeAlleleName(x.allele) /= name
              /\ Len(fit_log[p].Y) = Len(fit_log[p].X)
              /\ \A k \in CVFits : fit_log[k].allele = name => p < k

----------------------------------------------------------------------------
\* Properties of generate_all_model_configs (SpecGrid)

\* the combinations of hyperparameter values the grid is made of
C11_Combinations ==
    [embedding_size : Range(DefaultEmbeddingSizes),
     hidden_layer_size : Range(HIDDEN1_LAYER_SIZES),
     activation : Range(ACTIVATIONS),
     init : Range(INITILIZATION_METHODS),
     loss : Range(LOSSES),
     dropout_probability : {0, args.max_dropout},
     n_pretrain_epochs : Range(PRETRAIN_EPOCHS),
     n_epochs : {args.training_epochs},
     max_ic50 : Range(MAX_IC50_VALUES)]

C11_Count ==
    Len(configurations) = 2 * 1 * 2 * 2 * 2 * Len(DefaultEmbeddingSizes) * 2 * 2

C11_Epochs ==
    \A k \in 1..Len(configurations) :
        configurations[k].n_epochs = args.training_epochs

C11_OnePerCombination ==
    /\ Range(configurations) \subseteq C11_Combinations
    /\ \A c \in C11_Combinations :
          Cardinality({k \in 1..Len(configurations) : configurations[k] = c}) = 1

C11_Distinct ==
    \A a, b \in 1..Len(configurations) :
        a /= b => configurations[a] /= configurations[b]

\* C11 as stated: the returned list holds exactly one configuration for each
\* combination of activation, loss, init, n_pretrain_epochs, hidden layer
\* size, embedding size, dropout in {0, max_dropout} and max_ic50, 128 in all
\* with the default embedding sizes; every configuration has n_epochs equal
\* to n_training_epochs, and the configurations are pairwise distinct for
\* every value of max_dropout.
C11_OneConfigurationPerCombination ==
    pc = "generated" =>
        /\ C11_Count
        /\ C11_Epochs
        /\ C11_OnePerCombination
        /\ C11_Distinct

====
